---- MODULE Spec2Model ----
(***************************************************************************)
(* Bootstrap confidence-interval estimators of the bid-ratio scripts:      *)
(*   analist2.py  bootstrap_predict_interval  (Ridge)                      *)
(*   analist3.py  rf_bootstrap_interval       (RandomForestRegressor)      *)
(*   analist5.py  xgb_bootstrap_interval      (xgboost, targets clipped)   *)
(* One call is modelled step by step: entry, one step per bootstrap round, *)
(* and the percentile summary after the loop.  Numbers are exact           *)
(* rationals: alpha is alphaNum / AlphaDen, targets are in hundredths, and *)
(* a returned value v is stored as v * PScale(n_boot).                     *)
(***************************************************************************)
EXTENDS Integers, Sequences, FiniteSets, TLC

\* ------------------------------------------------------------------ bounds
MaxN == 2        \* rows of the training set: 0..MaxN
MaxM == 2        \* rows of the evaluation set: 0..MaxM
MaxRounds == 2   \* n_bootstrap / n_boot: -1..MaxRounds
RngMod == 3      \* states of the global numpy generator: 0..RngMod-1
AlphaDen == 3    \* alpha = alphaNum / AlphaDen, alphaNum in -1..AlphaDen+1
MaxCalls == 2    \* calls of the estimator made by one process (SpecCalls)
MaxSaves == 2    \* save_to_csv / save_to_excel calls made on one path
MaxDay == 2      \* search dates, as day numbers 1..MaxDay

\* ------------------------------------------------------- program constants
ClipFloor == 90  \* y.clip(lower=0.90), in hundredths

\* ------------------------------------------------------------ input domains
Families == {"ridge", "rf", "xgb"}
Widths == {1, 2}                               \* columns of X_test; X_train has one
TargetVals == {ClipFloor - 40, ClipFloor + 5}  \* a target below / above the floor
PredVals == {0, 1}                             \* what a regressor predicts for a row
AlphaNums == (-1)..(AlphaDen + 1)
RoundCounts == (-1)..MaxRounds

VARIABLES
  family,     \* which of the three scripts' estimator the process calls
  X_train,    \* caller's training features: N rows of width K
  y_train,    \* caller's training targets: N values
  X_test,     \* caller's evaluation features: M rows
  n_boot,     \* argument n_bootstrap / n_boot
  alphaNum,   \* argument alpha, as a numerator over AlphaDen
  rng,        \* state of the process-wide generator behind np.random
  fitted,     \* the regressor library's answer for each sample handed to fit
  pc,         \* "idle", "loop", "returned", "raised"
  y,          \* the callee's local targets (clipped in analist5)
  i,          \* rounds completed by the loop
  preds_all,  \* the list of prediction rows
  ret,        \* what the call returned: kind "none", "nan" or "seq"
  exc,        \* the exception that left the call: cls "none" while there is none
  nModels,    \* regressors constructed during the current call
  nFits,      \* fit calls made during the current call
  nSummary,   \* times the summary was computed during the current call
  calls,      \* calls started so far
  firstRet,   \* outcome of the first call, once a second call has begun
  result_csv, \* the script's result file: "absent", "partial" or "full"
  exit_status, \* exit status of the script's process, -1 while it runs
  csv_file,   \* the file at filepath: whether it exists, and its lines
  xlsx_file,  \* the workbook at filepath: whether it exists, and its rows
  data,       \* argument data of the latest save call
  append,     \* argument append of the latest save call
  new_data,   \* the rows the latest save call found new
  read_failed, \* whether the latest save call failed to read the existing file
  nSaves,     \* save calls made so far
  start_date, \* argument start_date of the search, a day number
  end_date,   \* argument end_date of the search, a day number
  caller,     \* who calls search_bids_with_requests: "main" or "test"
  spc,        \* position of the scraper: "main", "search", "searched", ...
  page,       \* the result page the site answered with
  bids,       \* what search_bids_with_requests gave its caller
  selenium_runs, \* calls of search_bids_with_selenium made by main
  date_str,   \* argument of validate_date, a sequence of characters
  validated,  \* outcome of validate_date: a date, or ValueError
  sel,        \* what search_bids_with_selenium gave main
  drivers,    \* the browser drivers started so far: who asked, times quit
  bid_index,  \* main's detail loop: the bid being detailed, counted from 1
  detailed_bid, \* main's detail loop: the local detailed_bid
  detailed_bids, \* main's list detailed_bids
  selenium_details, \* the bids get_bid_details_with_selenium was called for
  sleeps,     \* the bids after which random_sleep was called, in order
  start,      \* scraping_auto.main: the parsed first argument
  end,        \* scraping_auto.main: the parsed second argument
  current,    \* scraping_auto.main: start of the next window; add_month's argument
  next_month, \* scraping_auto.main: end of the window; add_month's result
  windows,    \* the scraper runs launched: the dates each received, its status
  site,       \* the opening dates of the bids the site holds
  kobe_csv,   \* bid_scraper's OUTPUT_CSV: whether it exists, its header lines, its rows
  apc,        \* position of scraping_auto.main: "check", "loop", "exited"
  fpc,        \* position of fetch_kobe_bids_selenium
  driver,     \* fetch_kobe_bids_selenium's driver: whether started, times quit
  url_list,   \* fetch_kobe_bids_selenium's url_list, as the pages the URLs lead to
  fetch_bids, \* fetch_kobe_bids_selenium's list bids
  fetched     \* what fetch_kobe_bids_selenium returned

estimator == <<family, X_train, y_train, X_test, n_boot, alphaNum, rng, fitted,
               pc, y, i, preds_all, ret, exc, nModels, nFits, nSummary,
               calls, firstRet>>

\* kobe_bid_scraper.py: the state the save functions work on.
saving == <<csv_file, xlsx_file, data, append, new_data, read_failed, nSaves>>
searching == <<start_date, end_date, caller, spc, page, bids, selenium_runs>>
validating == <<date_str, validated>>
browsing == <<sel, drivers, bid_index, detailed_bid, detailed_bids, selenium_details,
              sleeps>>

\* The browser-driven parts of the scrapers and the monthly runner.
monthly == <<start, end, current, next_month, windows, site, kobe_csv, apc>>
fetching == <<fpc, driver, url_list, fetch_bids, fetched>>
automation == <<browsing, monthly, fetching>>

\* What fetch_kobe_bids_selenium leaves alone.
outside_fetching == <<result_csv, exit_status, saving, searching, validating,
                      browsing, monthly>>
scraper == <<saving, searching, validating, automation>>

\* What lies outside the estimator function.
outside == <<result_csv, exit_status, scraper>>

vars == <<estimator, outside>>

inputs == <<family, X_train, y_train, X_test, n_boot, alphaNum>>

\* ------------------------------------------------------------------ helpers
\* A DataFrame of n rows and k columns; row r holds r in every column.
Frame(n, k) == [cols |-> k, rows |-> [r \in 1..n |-> [c \in 1..k |-> r]]]

\* Clip that leaves every value as it is.
ClipNothing(s, floor) == s

\* pandas Series.clip(lower=...): a new series, the argument is not changed.
Clip(s, floor) == [p \in 1..Len(s) |-> IF s[p] < floor THEN floor ELSE s[p]]

\* The generator's next state, and the index in 0..n-1 it yields from state s.
RngNext(s) == (s + 1) % RngMod
RngIndex(s, n) == ((s * (s + 1)) \div 2) % n

RECURSIVE RngAfter(_, _)
RngAfter(s, k) == IF k = 0 THEN s ELSE RngAfter(RngNext(s), k - 1)

\* np.random.choice(n, n, replace=True) from state s: n indices in 0..n-1.
Choice(s, n) == [p \in 1..n |-> RngIndex(RngAfter(s, p - 1), n)]

\* Series.iloc[idx] and DataFrame.iloc[idx]: gather by 0-based positions.
Iloc(series, idx) == [p \in 1..Len(idx) |-> series[idx[p] + 1]]
FrameIloc(frame, idx) == [cols |-> frame.cols, rows |-> Iloc(frame.rows, idx)]

\* ------------------------------------------------------- numpy: the summary
\* Values are exact: a quantile is kept times QScale, and every returned
\* number times PScale(n), n being the number of rows of the array.
QScale == 2 * AlphaDen
PScale(n) == n * QScale

RECURSIVE Insert(_, _)
Insert(sorted, v) ==
  IF sorted = <<>> THEN <<v>>
  ELSE IF v <= Head(sorted) THEN <<v>> \o sorted
  ELSE <<Head(sorted)>> \o Insert(Tail(sorted), v)

\* Sort leaving the column as the rounds produced it.
SortNot(col) == col

RECURSIVE Sort(_)
Sort(col) == IF col = <<>> THEN <<>> ELSE Insert(Sort(Tail(col)), Head(col))

RECURSIVE Sum(_)
Sum(col) == IF col = <<>> THEN 0 ELSE Head(col) + Sum(Tail(col))

\* Column reading one column whatever m is (an axis mix-up).
ColumnFirst(arr, m) == [b \in 1..Len(arr) |-> arr[b][1]]

\* Column m of the array built from the list of rows.
Column(arr, m) == [b \in 1..Len(arr) |-> arr[b][m]]

\* Quantile by nearest rank: the element at rank ceil(num/QScale * n) of the
\* sorted column (rank 1 at least), with no interpolation.
QuantileNearestRank(col, num) ==
  LET r == (num * Len(col) + QScale - 1) \div QScale
  IN QScale * Sort(col)[IF r < 1 THEN 1 ELSE r]

\* np.percentile(col, q) for q/100 = num/QScale, method 'linear': the value at
\* the virtual index q/100 * (n-1) of the sorted column, times QScale.
Quantile(col, num) ==
  LET s == Sort(col)
      t == num * (Len(col) - 1)
      lo == t \div QScale
      fr == t % QScale
  IN IF fr = 0 THEN QScale * s[lo + 1]
     ELSE QScale * s[lo + 1] + fr * (s[lo + 2] - s[lo + 1])

\* The two percentile ranks of the code, as numerators over QScale:
\* 100 * (alpha / 2) and 100 * (1 - alpha / 2).
LowerNum(aNum) == aNum
UpperNum(aNum) == QScale - aNum

\* np.percentile rejects q outside [0, 100].
QValid(num) == 0 <= num /\ num <= QScale

\* Summary with the two percentile ranks exchanged.
SummarySwapped(arr, m, aNum) ==
  [kind  |-> "seq",
   mean  |-> [c \in 1..m |-> QScale * Sum(Column(arr, c))],
   lower |-> [c \in 1..m |-> Len(arr) * Quantile(Column(arr, c), UpperNum(aNum))],
   upper |-> [c \in 1..m |-> Len(arr) * Quantile(Column(arr, c), LowerNum(aNum))]]

\* np.mean / np.percentile over axis 0 of the non-empty array arr whose rows
\* have m entries.
Summary(arr, m, aNum) ==
  [kind  |-> "seq",
   mean  |-> [c \in 1..m |-> QScale * Sum(Column(arr, c))],
   lower |-> [c \in 1..m |-> Len(arr) * Quantile(Column(arr, c), LowerNum(aNum))],
   upper |-> [c \in 1..m |-> Len(arr) * Quantile(Column(arr, c), UpperNum(aNum))]]

NoRet == [kind |-> "none", mean |-> <<>>, lower |-> <<>>, upper |-> <<>>]
NanRet == [kind |-> "nan", mean |-> <<>>, lower |-> <<>>, upper |-> <<>>]
NoExc == [cls |-> "none", origin |-> "none"]

\* ------------------------------------------- sklearn / xgboost: fit, predict
\* The answers a regressor may give for one training sample: fit raises,
\* predict raises, or one prediction per evaluation row.  sklearn refuses an
\* empty training sample and an empty evaluation set; every family refuses
\* evaluation rows whose columns differ from the fitted ones.
FitError == [kind |-> "fit_error", preds |-> <<>>]
PredictError == [kind |-> "predict_error", preds |-> <<>>]
Regress(fam, X_sample, Xt) ==
  IF fam # "xgb" /\ Len(X_sample.rows) = 0 THEN {FitError}
  ELSE IF X_sample.cols # Xt.cols \/ (fam # "xgb" /\ Len(Xt.rows) = 0)
       THEN {FitError, PredictError}
  ELSE {FitError, PredictError}
         \cup {[kind |-> "ok", preds |-> p] : p \in [1..Len(Xt.rows) -> PredVals]}

\* ------------------------------------------------------------------ actions
\* The parts of the state a specification does not exercise, at rest.
MainIdle ==
  /\ result_csv = "absent"
  /\ exit_status = -1

SavingIdle ==
  /\ csv_file = [exists |-> FALSE, lines |-> <<>>]
  /\ xlsx_file = [exists |-> FALSE, rows |-> <<>>]
  /\ data = <<>>
  /\ append = FALSE
  /\ new_data = <<>>
  /\ read_failed = FALSE
  /\ nSaves = 0

NoPage == [table |-> FALSE, rows |-> <<>>, next |-> "none"]
NoBids == [kind |-> "pending", list |-> <<>>, exc |-> "none"]

SearchingIdle ==
  /\ start_date = 1
  /\ end_date = 1
  /\ caller = "main"
  /\ spc = "main"
  /\ page = NoPage
  /\ bids = NoBids
  /\ selenium_runs = 0

NoDate == [kind |-> "pending", year |-> 0, month |-> 0, day |-> 0]

ValidatingIdle ==
  /\ date_str = <<>>
  /\ validated = NoDate

NoDetail == [row |-> 0, link |-> "none", name |-> "absent", count |-> "absent"]

BrowsingIdle ==
  /\ sel = NoBids
  /\ drivers = <<>>
  /\ bid_index = 0
  /\ detailed_bid = NoDetail
  /\ detailed_bids = <<>>
  /\ selenium_details = {}
  /\ sleeps = <<>>

Date(yy, mm, dd) == [year |-> yy, month |-> mm, day |-> dd]
NoDay == Date(0, 0, 0)
NoFile == [exists |-> FALSE, headers |-> 0, rows |-> <<>>]

MonthlyIdle ==
  /\ start = NoDay
  /\ end = NoDay
  /\ current = NoDay
  /\ next_month = NoDay
  /\ windows = <<>>
  /\ site = {}
  /\ kobe_csv = NoFile
  /\ apc = "check"

FetchingIdle ==
  /\ fpc = "start"
  /\ driver = [started |-> FALSE, quits |-> 0]
  /\ url_list = <<>>
  /\ fetch_bids = <<>>
  /\ fetched = NoBids

AutomationIdle ==
  /\ BrowsingIdle
  /\ MonthlyIdle
  /\ FetchingIdle

EstimatorIdle ==
  /\ family = "ridge"
  /\ X_train = Frame(0, 1)
  /\ y_train = <<>>
  /\ X_test = Frame(0, 1)
  /\ n_boot = 0
  /\ alphaNum = 0
  /\ rng = 0
  /\ fitted = <<>>
  /\ pc = "idle"
  /\ y = <<>>
  /\ i = 0
  /\ preds_all = <<>>
  /\ ret = NoRet
  /\ exc = NoExc
  /\ nModels = 0
  /\ nFits = 0
  /\ nSummary = 0
  /\ calls = 0
  /\ firstRet = <<>>

Init ==
  /\ family \in Families
  /\ \E n \in 0..MaxN :
       /\ X_train = Frame(n, 1)
       /\ y_train \in [1..n -> TargetVals]
  /\ \E m \in 0..MaxM, k \in Widths : X_test = Frame(m, k)
  /\ n_boot \in RoundCounts
  /\ alphaNum \in AlphaNums
  /\ rng \in 0..(RngMod - 1)
  /\ fitted = <<>>
  /\ pc = "idle"
  /\ y = <<>>
  /\ i = 0
  /\ preds_all = <<>>
  /\ ret = NoRet
  /\ exc = NoExc
  /\ nModels = 0
  /\ nFits = 0
  /\ nSummary = 0
  /\ calls = 0
  /\ firstRet = <<>>
  /\ MainIdle
  /\ SavingIdle
  /\ SearchingIdle
  /\ ValidatingIdle
  /\ AutomationIdle

\* The targets the loop samples from: analist5 clips them first.
EntryTargets(fam, targets) == IF fam = "xgb" THEN Clip(targets, ClipFloor) ELSE targets

\* BindTargets clipping the caller's series in place.
BindTargetsInPlace ==
  /\ y' = EntryTargets(family, y_train)
  /\ y_train' = y'

\* y = y.clip(lower=0.90) binds the local name to a new series; the other two
\* functions use the caller's series as it is.
BindTargets ==
  /\ y' = EntryTargets(family, y_train)
  /\ y_train' = y_train

\* Entry of the function: the locals before the loop.
Enter ==
  /\ calls' = calls + 1
  /\ BindTargets
  /\ preds_all' = <<>>
  /\ i' = 0
  /\ pc' = "loop"
  /\ ret' = NoRet
  /\ exc' = NoExc
  /\ nModels' = 0
  /\ nFits' = 0
  /\ nSummary' = 0
  /\ UNCHANGED <<family, X_train, X_test, n_boot, alphaNum, rng, fitted, outside>>

\* The script's one call of the estimator.
Call ==
  /\ pc = "idle"
  /\ Enter
  /\ UNCHANGED firstRet

\* A further call with the same arguments in the same process, the generator
\* left where the calls before it left it.
CallAgain ==
  /\ pc \in {"returned", "raised"}
  /\ calls < MaxCalls
  /\ Enter
  /\ firstRet' = IF calls = 1 THEN <<[ret |-> ret, exc |-> exc]>> ELSE firstRet

\* The exception that leaves the call when a round's fit or predict raises.
RoundError(kind) ==
  [cls |-> "Exception", origin |-> IF kind = "fit_error" THEN "fit" ELSE "predict"]

\* RoundEnd with the failure swallowed: the round is skipped, the loop goes on.
RoundEndSkipping(out) ==
  IF out.kind = "ok"
  THEN /\ preds_all' = Append(preds_all, out.preds)
       /\ i' = i + 1
       /\ UNCHANGED <<pc, exc>>
  ELSE /\ i' = i + 1
       /\ UNCHANGED <<pc, exc, preds_all>>

\* RoundEnd keeping only the latest row instead of appending it.
RoundEndOverwriting(out) ==
  IF out.kind = "ok"
  THEN /\ preds_all' = IF preds_all = <<>> THEN <<out.preds>>
                       ELSE <<out.preds>> \o Tail(preds_all)
       /\ i' = i + 1
       /\ UNCHANGED <<pc, exc>>
  ELSE /\ pc' = "raised"
       /\ exc' = [cls |-> "Exception",
                  origin |-> IF out.kind = "fit_error" THEN "fit" ELSE "predict"]
       /\ UNCHANGED <<preds_all, i>>

\* End of an iteration: the predictions are appended and the loop goes on, or
\* the exception of fit / predict leaves the function (there is no try).
RoundEnd(out) ==
  IF out.kind = "ok"
  THEN /\ preds_all' = Append(preds_all, out.preds)
       /\ i' = i + 1
       /\ UNCHANGED <<pc, exc>>
  ELSE /\ pc' = "raised"
       /\ exc' = RoundError(out.kind)
       /\ UNCHANGED <<preds_all, i>>

\* Resample gathering the targets with a second draw of their own.
ResampleUnpaired(s, n, frame, targets) ==
  [idx |-> Choice(s, n),
   X |-> FrameIloc(frame, Choice(s, n)),
   y |-> Iloc(targets, Choice(RngNext(s), n))]

\* idx = np.random.choice(n, n, replace=True) from generator state s, and
\* the features and targets gathered with that one index sequence.
Resample(s, n, frame, targets) ==
  LET idx == Choice(s, n)
  IN [idx |-> idx, X |-> FrameIloc(frame, idx), y |-> Iloc(targets, idx)]

\* One iteration of the loop body.
Round ==
  /\ pc = "loop"
  /\ i < n_boot
  /\ LET n == Len(X_train.rows)
         sample == Resample(rng, n, X_train, y)
         drawn == RngAfter(rng, n)
         X_sample == sample.X
         y_sample == sample.y
         seed == IF family = "rf" THEN drawn ELSE -1
         key == <<X_sample.rows, y_sample, seed>>
     IN \E out \in (IF key \in DOMAIN fitted THEN {fitted[key]}
                    ELSE Regress(family, X_sample, X_test)) :
          /\ fitted' = IF key \in DOMAIN fitted THEN fitted ELSE fitted @@ (key :> out)
          /\ rng' = IF family = "rf" /\ out.kind # "fit_error" THEN RngNext(drawn) ELSE drawn
          /\ nModels' = nModels + 1
          /\ nFits' = nFits + 1
          /\ RoundEnd(out)
  /\ UNCHANGED <<inputs, y, ret, nSummary, calls, firstRet, outside>>

\* After the loop: np.array(preds_all), the mean and the two percentiles.
Summarize ==
  /\ pc = "loop"
  /\ i >= n_boot
  /\ nSummary' = nSummary + 1
  /\ IF ~(QValid(LowerNum(alphaNum)) /\ QValid(UpperNum(alphaNum)))
     THEN /\ pc' = "raised"
          /\ exc' = [cls |-> "ValueError", origin |-> "percentile"]
          /\ ret' = ret
     ELSE IF Len(preds_all) = 0
     THEN \/ /\ pc' = "returned"
             /\ ret' = NanRet
             /\ exc' = exc
          \/ /\ pc' = "raised"
             /\ exc' = [cls |-> "IndexError", origin |-> "percentile"]
             /\ ret' = ret
     ELSE /\ pc' = "returned"
          /\ ret' = Summary(preds_all, Len(X_test.rows), alphaNum)
          /\ exc' = exc
  /\ UNCHANGED <<inputs, rng, fitted, y, i, preds_all, nModels, nFits, calls, firstRet,
                 outside>>

Next == Call \/ Round \/ Summarize

Spec == Init /\ [][Next]_vars

\* The same process making up to MaxCalls calls.
NextCalls == Call \/ Round \/ Summarize \/ CallAgain

SpecCalls == Init /\ [][NextCalls]_vars

\* ------------------------------------------------- main() of the scripts
\* main passes literal arguments (n_bootstrap = 100 or 50, alpha = 0.05) and
\* an evaluation frame that preprocess has given the training columns.
InitMain ==
  /\ Init
  /\ n_boot >= 1
  /\ alphaNum = 1
  /\ X_test.cols = X_train.cols

\* len(sys.argv) != 3: the usage line and sys.exit(1).
Usage ==
  /\ pc = "idle"
  /\ exit_status = -1
  /\ exit_status' = 1
  /\ UNCHANGED <<estimator, result_csv, scraper>>

\* The call of the estimator in main.
MainCall ==
  /\ exit_status = -1
  /\ Call

\* SaveResult run as a clean-up, whether the estimator returned or raised.
SaveResultAlways ==
  /\ pc \in {"returned", "raised"}
  /\ exit_status = -1
  /\ result_csv = "absent"
  /\ result_csv' = "full"
  /\ UNCHANGED <<estimator, exit_status, scraper>>

\* The statement after the call: the result frame is built and to_csv writes
\* the file, or one of the two raises (to_csv possibly after it began).
SaveResult ==
  /\ pc = "returned"
  /\ exit_status = -1
  /\ result_csv = "absent"
  /\ \/ /\ result_csv' = "full"
        /\ UNCHANGED <<pc, exc>>
     \/ /\ result_csv' \in {"absent", "partial"}
        /\ pc' = "raised"
        /\ exc' = [cls |-> "Exception", origin |-> "save"]
  /\ UNCHANGED <<inputs, rng, fitted, y, i, preds_all, ret, nModels, nFits, nSummary,
                 calls, firstRet, exit_status, scraper>>

\* End of the process: an exception nothing caught ends it with status 1,
\* the return of main with status 0.
Exit ==
  /\ exit_status = -1
  /\ \/ pc = "raised" /\ exit_status' = 1
     \/ pc = "returned" /\ result_csv = "full" /\ exit_status' = 0
  /\ UNCHANGED <<estimator, result_csv, scraper>>

NextMain == Usage \/ MainCall \/ Round \/ Summarize \/ SaveResult \/ Exit

\* The interpreter runs the script's statements one after the other until the
\* process ends.
SpecMain == InitMain /\ [][NextMain]_vars /\ WF_vars(NextMain)

\* ------------------------------------- kobe_bid_scraper.py: save_to_csv
\* A bid row is taken with three of its fields: the two key fields and one
\* standing for the other six columns.  A line of the file is the tuple of a
\* row's fields in column order; the header line is the tuple of the column
\* names.
BidNames == {"", "A"}
BidDates == {"d1"}
BidOthers == {"x", "y"}
Bids == [name : BidNames, opened : BidDates, rest : BidOthers]
BatchLens == 0..2
Batches == UNION {[1..n -> Bids] : n \in BatchLens}

columns == <<"name", "opened", "rest">>

\* {col: row.get(col, "") for col in columns}, as writerow writes it.
FilteredRow(row) == <<row.name, row.opened, row.rest>>

\* The key of a bid row: (row.get("工事名", ""), row.get("開札日時", "")).
RowKey(row) == <<row.name, row.opened>>

\* dict(zip(fieldnames, line)).get(col, ""): the last field under that name.
DictGet(fieldnames, line, col) ==
  LET at == {k \in 1..Len(fieldnames) : fieldnames[k] = col /\ k <= Len(line)}
  IN IF at = {} THEN "" ELSE line[CHOOSE k \in at : \A j \in at : j <= k]

\* list(csv.DictReader(f)): the first line gives the field names, whatever
\* it holds; every later line is a row.
DictReader(lines) ==
  IF lines = <<>> THEN <<>>
  ELSE [p \in 1..(Len(lines) - 1) |->
          [name |-> DictGet(lines[1], lines[p + 1], columns[1]),
           opened |-> DictGet(lines[1], lines[p + 1], columns[2]),
           rest |-> DictGet(lines[1], lines[p + 1], columns[3])]]

ExistingKeys(existing_data) == {RowKey(existing_data[p]) : p \in 1..Len(existing_data)}

\* [row for row in data if key(row) not in existing_keys]
NewData(batch, existing_keys) ==
  SelectSeq(batch, LAMBDA row : RowKey(row) \notin existing_keys)

\* Mode opening the file for writing whatever append says.
ModeTruncating(appending, exists) == "w"

\* mode = "a" if append and os.path.exists(filepath) else "w"
Mode(appending, exists) == IF appending /\ exists THEN "a" ELSE "w"

\* write_header = not (append and os.path.exists(filepath))
WriteHeader(appending, exists) == ~(appending /\ exists)

\* One call save_to_csv(data, filepath, append).  Reading the existing file
\* may fail; the except clause then goes on with no existing rows.
SaveToCsv ==
  /\ nSaves < MaxSaves
  /\ \E d \in Batches, a \in BOOLEAN, readable \in BOOLEAN :
       LET reads == a /\ csv_file.exists
           existing_data == IF reads /\ readable THEN DictReader(csv_file.lines) ELSE <<>>
           nd == NewData(d, ExistingKeys(existing_data))
           written == (IF WriteHeader(a, csv_file.exists) THEN <<columns>> ELSE <<>>)
                        \o [p \in 1..Len(nd) |-> FilteredRow(nd[p])]
       IN /\ (reads \/ readable)
          /\ csv_file' = [exists |-> TRUE,
                          lines |-> IF Mode(a, csv_file.exists) = "a"
                                    THEN csv_file.lines \o written ELSE written]
          /\ data' = d
          /\ append' = a
          /\ new_data' = nd
          /\ read_failed' = (reads /\ ~readable)
          /\ nSaves' = nSaves + 1
  /\ UNCHANGED <<estimator, result_csv, exit_status, xlsx_file, searching, validating, automation>>

\* The path names no file, or a file that is empty.
InitCsv ==
  /\ EstimatorIdle
  /\ MainIdle
  /\ data = <<>>
  /\ append = FALSE
  /\ new_data = <<>>
  /\ read_failed = FALSE
  /\ nSaves = 0
  /\ csv_file \in {[exists |-> e, lines |-> <<>>] : e \in BOOLEAN}
  /\ xlsx_file = [exists |-> FALSE, rows |-> <<>>]
  /\ SearchingIdle
  /\ ValidatingIdle
  /\ AutomationIdle

NextCsv == SaveToCsv

SpecCsv == InitCsv /\ [][NextCsv]_vars

\* ----------------------------------- kobe_bid_scraper.py: save_to_excel
\* A workbook is kept as its data rows, a cell being the text stored in it
\* and "" a cell that stores nothing.  to_excel stores nothing for "" and
\* for NaN; read_excel gives NaN for a cell that stores nothing.
NaN == "NaN"
WriteCell(v) == IF v = NaN THEN "" ELSE v
ReadCell(c) == IF c = "" THEN NaN ELSE c
ToExcel(frame) == [p \in 1..Len(frame) |-> [c \in 1..Len(frame[p]) |-> WriteCell(frame[p][c])]]
ReadExcel(rows) == [p \in 1..Len(rows) |-> [c \in 1..Len(rows[p]) |-> ReadCell(rows[p][c])]]

\* set(zip(existing_df["工事名"], existing_df["開札日時"]))
FrameKeys(frame) == {<<frame[p][1], frame[p][2]>> : p \in 1..Len(frame)}

\* One call save_to_excel(data, filepath, append).  Reading or merging the
\* existing workbook may fail; the except clause then saves the batch alone.
SaveToExcel ==
  /\ nSaves < MaxSaves
  /\ \E d \in Batches, a \in BOOLEAN, readable \in BOOLEAN :
       LET reads == a /\ xlsx_file.exists
           df == [p \in 1..Len(d) |-> FilteredRow(d[p])]
           existing_df == ReadExcel(xlsx_file.rows)
           nd == NewData(d, FrameKeys(existing_df))
           combined_df == existing_df \o [p \in 1..Len(nd) |-> FilteredRow(nd[p])]
       IN /\ (reads \/ readable)
          /\ xlsx_file' = [exists |-> TRUE,
                           rows |-> IF reads /\ readable THEN ToExcel(combined_df)
                                    ELSE ToExcel(df)]
          /\ data' = d
          /\ append' = a
          /\ new_data' = (IF reads /\ readable THEN nd ELSE d)
          /\ read_failed' = (reads /\ ~readable)
          /\ nSaves' = nSaves + 1
  /\ UNCHANGED <<estimator, result_csv, exit_status, csv_file, searching, validating, automation>>

\* The path names no file.
InitXlsx ==
  /\ EstimatorIdle
  /\ MainIdle
  /\ SavingIdle
  /\ SearchingIdle
  /\ ValidatingIdle
  /\ AutomationIdle

NextXlsx == SaveToExcel

SpecXlsx == InitXlsx /\ [][NextXlsx]_vars

\* ------------------------ kobe_bid_scraper.py: search_bids_with_requests
\* The result page as the function reads it: whether table.kekka is there,
\* its rows after the header row, and the anchor whose text matches
\* the next-page pattern: none, one without href, or one with href.  A row
\* has too few cells ("short"), no usable link ("nolink"), or a relative or
\* an absolute link.
Days == 1..MaxDay
RowKinds == {"short", "nolink", "rel", "abs"}
PageRowCounts == 0..2
PageRows == UNION {[1..n -> RowKinds] : n \in PageRowCounts}
Pages ==
  {NoPage} \cup {[table |-> TRUE, rows |-> r, next |-> n] :
                    r \in PageRows, n \in {"none", "nohref", "href"}}

\* The loop over the rows: rows with fewer than 5 cells or with no link are
\* skipped, a relative link is made absolute.
RECURSIVE ParseFrom(_, _)
ParseFrom(rows, p) ==
  IF p > Len(rows) THEN <<>>
  ELSE (IF rows[p] \in {"rel", "abs"} THEN <<[row |-> p, link |-> "abs"]>> ELSE <<>>)
         \o ParseFrom(rows, p + 1)

\* The pagination check never finding a next page.
NextPageNever(pg) == FALSE

\* next_page and next_page.get("href")
NextPage(pg) == pg.next = "href"

\* The try block on a page that was received.
SearchResult(pg) ==
  IF ~pg.table THEN [kind |-> "none", list |-> <<>>, exc |-> "none"]
  ELSE IF NextPage(pg) THEN [kind |-> "none", list |-> <<>>, exc |-> "none"]
  ELSE [kind |-> "list", list |-> ParseFrom(pg.rows, 1), exc |-> "none"]

\* main: start_date > end_date ends the process before any search.
MainDates ==
  /\ spc = "main"
  /\ caller = "main"
  /\ spc' = IF start_date > end_date THEN "exit" ELSE "search"
  /\ UNCHANGED <<estimator, result_csv, exit_status, saving, validating, automation,
                 start_date, end_date, caller, page, bids, selenium_runs>>

\* One call search_bids_with_requests(start_date, end_date): the first GET
\* is outside the try and its exception leaves the function; a failing POST
\* is caught and gives None; otherwise the page is parsed.
SearchBidsWithRequests ==
  /\ spc = "search"
  /\ \/ /\ spc' = "raised"
        /\ bids' = [kind |-> "raised", list |-> <<>>, exc |-> "RequestException"]
        /\ page' = NoPage
     \/ /\ spc' = "searched"
        /\ bids' = [kind |-> "none", list |-> <<>>, exc |-> "none"]
        /\ page' = NoPage
     \/ \E pg \in Pages :
          /\ spc' = "searched"
          /\ bids' = SearchResult(pg)
          /\ page' = pg
  /\ UNCHANGED <<estimator, result_csv, exit_status, saving, validating, automation,
                 start_date, end_date, caller, selenium_runs>>

\* MainFallback calling the browser-driven search whatever the requests
\* search returned.
MainFallbackAlways ==
  /\ caller = "main"
  /\ spc = "searched"
  /\ spc' = "selenium"
  /\ selenium_runs' = selenium_runs + 1
  /\ UNCHANGED <<estimator, result_csv, exit_status, saving, validating, automation,
                 start_date, end_date, caller, page, bids>>

\* main: if bids is None, the browser-driven search is called.
MainFallback ==
  /\ caller = "main"
  /\ spc = "searched"
  /\ bids.kind = "none"
  /\ spc' = "selenium"
  /\ selenium_runs' = selenium_runs + 1
  /\ UNCHANGED <<estimator, result_csv, exit_status, saving, validating, automation,
                 start_date, end_date, caller, page, bids>>

\* main is started with two dates; the test calls the function itself, with
\* any two dates.
InitSearch ==
  /\ EstimatorIdle
  /\ MainIdle
  /\ SavingIdle
  /\ start_date \in Days
  /\ end_date \in Days
  /\ caller \in {"main", "test"}
  /\ spc = IF caller = "main" THEN "main" ELSE "search"
  /\ page = NoPage
  /\ bids = NoBids
  /\ selenium_runs = 0
  /\ ValidatingIdle
  /\ AutomationIdle

NextSearch == MainDates \/ SearchBidsWithRequests \/ MainFallback

SpecSearch == InitSearch /\ [][NextSearch]_vars

\* ------------- kobe_bid_scraper.py: main and the browser-driven functions
\* A bid dictionary is taken with its row, its link and two of the required
\* fields: "name" for the three that the search result already holds, "count"
\* for the five that only a detail page gives.  A field is "absent" (no such
\* key), "" or a text.
RequiredFields == {"name", "count"}
FieldTexts == {"nokey", "", "v"}

\* bid_info as the search functions build it.
BidInfo(bid) == [row |-> bid.row, link |-> bid.link, name |-> "v", count |-> "absent"]

\* What a detail fetch meets: an exception, a page without the detail table,
\* or a table giving each field no row, an empty text or a text.
DetailOutcomes ==
  {[kind |-> k, name |-> "nokey", count |-> "nokey"] : k \in {"error", "notable"}}
    \cup [kind : {"table"}, name : FieldTexts, count : FieldTexts]

\* The field_mapping loop: a key found in details is taken over, a key that
\* neither details nor bid_details has is set to "".
MappedField(bid_info, out, f) ==
  IF out[f] # "nokey" THEN out[f]
  ELSE IF bid_info[f] # "absent" THEN bid_info[f]
  ELSE ""

\* What either detail function returns: bid_info itself after an exception or
\* without a table, else the copy updated by the field_mapping loop.
BidDetails(bid_info, out) ==
  IF out.kind # "table" THEN bid_info
  ELSE [bid_info EXCEPT !.name = MappedField(bid_info, out, "name"),
                        !.count = MappedField(bid_info, out, "count")]

\* [field for field in required_fields
\*    if field not in detailed_bid or not detailed_bid[field]]
MissingFields(d) == {f \in RequiredFields : d[f] \in {"absent", ""}}

\* extract_link_from_cell reads the name By, which setup_selenium imports
\* into its own scope only: the NameError is caught by the bare except and
\* the function returns None for every cell.
ExtractLinkFromCell(kind) == "none"

\* The loop of search_bids_with_selenium over the rows of the result table:
\* rows with too few cells or with no link are skipped.
RECURSIVE SeleniumParseFrom(_, _)
SeleniumParseFrom(rows, p) ==
  IF p > Len(rows) THEN <<>>
  ELSE (IF rows[p] # "short" /\ ExtractLinkFromCell(rows[p]) # "none"
        THEN <<[row |-> p, link |-> "abs"]>> ELSE <<>>)
         \o SeleniumParseFrom(rows, p + 1)

\* setup_selenium: the import fails, webdriver.Chrome raises, the driver is
\* started and one of the two configuration calls raises, or all succeed.
\* The except clause logs and raises again.
SetupOutcomes == {"import", "chrome", "config", "ok"}
DriverStarted(outcome) == outcome \in {"config", "ok"}
SetupSelenium(owner, outcome) ==
  IF DriverStarted(outcome) THEN Append(drivers, [owner |-> owner, quits |-> 0])
  ELSE drivers

\* driver.quit() on the driver the running function holds.
Quit(ds) == [ds EXCEPT ![Len(ds)].quits = @ + 1]

\* The list main works on after the search phase.
FoundBids == IF bids.kind = "list" THEN bids.list ELSE sel.list

\* search_bids_with_selenium, first statement: driver = setup_selenium().
SetupSearchDriver ==
  /\ spc = "selenium"
  /\ \E o \in SetupOutcomes :
       /\ drivers' = SetupSelenium("search", o)
       /\ spc' = IF o = "ok" THEN "selenium_try" ELSE "raised"
       /\ sel' = IF o = "ok" THEN sel
                 ELSE [kind |-> "raised", list |-> <<>>, exc |-> "Exception"]
  /\ UNCHANGED <<estimator, result_csv, exit_status, saving, validating,
                 start_date, end_date, caller, page, bids, selenium_runs, monthly, fetching,
                 bid_index, detailed_bid, detailed_bids, selenium_details, sleeps>>

\* search_bids_with_selenium, the try statement: an exception of the form
\* steps is raised again, else the rows collected are returned; the finally
\* clause quits the driver either way.
SearchBidsWithSelenium ==
  /\ spc = "selenium_try"
  /\ \/ /\ sel' = [kind |-> "raised", list |-> <<>>, exc |-> "Exception"]
        /\ spc' = "raised"
     \/ \E r \in PageRows :
          /\ sel' = [kind |-> "list", list |-> SeleniumParseFrom(r, 1), exc |-> "none"]
          /\ spc' = "selenium_returned"
  /\ drivers' = Quit(drivers)
  /\ UNCHANGED <<estimator, result_csv, exit_status, saving, validating,
                 start_date, end_date, caller, page, bids, selenium_runs, monthly, fetching,
                 bid_index, detailed_bid, detailed_bids, selenium_details, sleeps>>

\* main: if not bids, sys.exit(0); else the detail loop begins.
MainCheckBids ==
  /\ caller = "main"
  /\ \/ spc = "searched" /\ bids.kind = "list"
     \/ spc = "selenium_returned"
  /\ IF FoundBids = <<>>
     THEN /\ exit_status' = 0
          /\ spc' = "exited"
          /\ UNCHANGED bid_index
     ELSE /\ spc' = "details"
          /\ bid_index' = 1
          /\ UNCHANGED exit_status
  /\ UNCHANGED <<estimator, result_csv, saving, validating,
                 start_date, end_date, caller, page, bids, selenium_runs, monthly, fetching,
                 sel, drivers, detailed_bid, detailed_bids, selenium_details, sleeps>>

\* main's loop body up to the check of the required fields:
\* get_bid_details_with_requests(bid), then the browser-driven fetch is
\* called when a required field is missing or empty.
GetBidDetailsWithRequests ==
  /\ spc = "details"
  /\ \E out \in DetailOutcomes :
       LET d == BidDetails(BidInfo(FoundBids[bid_index]), out)
       IN /\ detailed_bid' = d
          /\ IF MissingFields(d) # {}
             THEN /\ spc' = "detail_selenium"
                  /\ selenium_details' = selenium_details \cup {bid_index}
             ELSE /\ spc' = "detail_append"
                  /\ UNCHANGED selenium_details
  /\ UNCHANGED <<estimator, result_csv, exit_status, saving, validating,
                 start_date, end_date, caller, page, bids, selenium_runs, monthly, fetching,
                 sel, drivers, bid_index, detailed_bids, sleeps>>

\* get_bid_details_with_selenium, first statement: driver = setup_selenium().
SetupDetailDriver ==
  /\ spc = "detail_selenium"
  /\ \E o \in SetupOutcomes :
       /\ drivers' = SetupSelenium("detail", o)
       /\ spc' = IF o = "ok" THEN "detail_try" ELSE "raised"
  /\ UNCHANGED <<estimator, result_csv, exit_status, saving, validating,
                 start_date, end_date, caller, page, bids, selenium_runs, monthly, fetching,
                 sel, bid_index, detailed_bid, detailed_bids, selenium_details, sleeps>>

\* get_bid_details_with_selenium, the try statement: any exception gives
\* bid_info back, a table the updated copy; the finally clause quits the
\* driver.
GetBidDetailsWithSelenium ==
  /\ spc = "detail_try"
  /\ \E out \in {o \in DetailOutcomes : o.kind # "notable"} :
       detailed_bid' = BidDetails(BidInfo(FoundBids[bid_index]), out)
  /\ drivers' = Quit(drivers)
  /\ spc' = "detail_append"
  /\ UNCHANGED <<estimator, result_csv, exit_status, saving, validating,
                 start_date, end_date, caller, page, bids, selenium_runs, monthly, fetching,
                 sel, bid_index, detailed_bids, selenium_details, sleeps>>

\* Whether main pauses after bid number n of the list.
SleepsAfterEvery(n, bid_list) == TRUE

\* if i < len(bids): random_sleep()
SleepsAfter(n, bid_list) == n < Len(bid_list)

\* main's loop body after the fetches: the append, the pause, the next bid.
MainAppend ==
  /\ spc = "detail_append"
  /\ detailed_bids' = Append(detailed_bids, detailed_bid)
  /\ sleeps' = IF SleepsAfter(bid_index, FoundBids) THEN Append(sleeps, bid_index)
               ELSE sleeps
  /\ IF bid_index < Len(FoundBids)
     THEN bid_index' = bid_index + 1 /\ spc' = "details"
     ELSE bid_index' = bid_index /\ spc' = "save"
  /\ UNCHANGED <<estimator, result_csv, exit_status, saving, validating,
                 start_date, end_date, caller, page, bids, selenium_runs, monthly, fetching,
                 sel, drivers, detailed_bid, selenium_details>>

\* main after the loop: the save calls and the summary; main returns, or a
\* save call raises and the except clause ends the process.  What the save
\* calls write is modelled by SaveToCsv and SaveToExcel.
MainSave ==
  /\ spc = "save"
  /\ exit_status' \in {0, 1}
  /\ spc' = "exited"
  /\ UNCHANGED <<estimator, result_csv, saving, validating,
                 start_date, end_date, caller, page, bids, selenium_runs, automation>>

\* main: sys.exit(1) after the date check, and in the except clause that
\* catches what the search and detail functions raise.
SysExit ==
  /\ caller = "main"
  /\ spc \in {"exit", "raised"}
  /\ exit_status' = 1
  /\ spc' = "exited"
  /\ UNCHANGED <<estimator, result_csv, saving, validating,
                 start_date, end_date, caller, page, bids, selenium_runs, automation>>

InitKobe ==
  /\ EstimatorIdle
  /\ MainIdle
  /\ SavingIdle
  /\ start_date \in Days
  /\ end_date \in Days
  /\ caller = "main"
  /\ spc = "main"
  /\ page = NoPage
  /\ bids = NoBids
  /\ selenium_runs = 0
  /\ ValidatingIdle
  /\ AutomationIdle

NextKobe ==
  \/ MainDates \/ SearchBidsWithRequests \/ MainFallback
  \/ SetupSearchDriver \/ SearchBidsWithSelenium \/ MainCheckBids
  \/ GetBidDetailsWithRequests \/ SetupDetailDriver \/ GetBidDetailsWithSelenium
  \/ MainAppend \/ MainSave \/ SysExit

\* The interpreter runs main's statements one after the other until the
\* process ends.
SpecKobe == InitKobe /\ [][NextKobe]_vars /\ WF_vars(NextKobe)

\* ------------------------------- kobe_bid_scraper.py: validate_date
\* A string is a sequence of characters.  The strings tried are a year part,
\* a separator, a month part, a separator and a day part.
Digits == <<"0", "1", "2", "3", "4", "5", "6", "7", "8", "9">>
IsDigit(c) == \E k \in 1..Len(Digits) : Digits[k] = c
DigitVal(c) == (CHOOSE k \in 1..Len(Digits) : Digits[k] = c) - 1
YearParts == {<<"2", "0", "2", "4">>, <<"2", "0", "2", "5">>, <<"2", "0", "2">>}
Separators == {"-", "/"}
MonthParts == {<<"0", "2">>, <<"2">>, <<"0", "4">>, <<"1", "2">>, <<"1", "3">>, <<"0", "0">>}
DayParts ==
  {<<"0", "1">>, <<"1">>, <<" ", "1">>, <<"2", "9">>, <<"3", "0">>, <<"3", "1">>,
   <<"3", "2">>, <<"0", "0">>}
DateStrings ==
  {yy \o <<s1>> \o mm \o <<s2>> \o dd :
     yy \in YearParts, s1 \in Separators, mm \in MonthParts,
     s2 \in Separators, dd \in DayParts}

\* datetime.date(year, month, day) exists.
IsLeap(year) == (year % 4 = 0 /\ year % 100 # 0) \/ year % 400 = 0
DaysIn(year, month) ==
  IF month = 2 THEN (IF IsLeap(year) THEN 29 ELSE 28)
  ELSE IF month \in {4, 6, 9, 11} THEN 30 ELSE 31
DateExists(year, month, day) ==
  year >= 1 /\ month \in 1..12 /\ day >= 1 /\ day <= DaysIn(year, month)

At(s, p) == IF p \in 1..Len(s) THEN s[p] ELSE "end"
ValueError == [kind |-> "ValueError", year |-> 0, month |-> 0, day |-> 0]

\* The part of the string that %m takes at position p: 1[0-2], 0[1-9] or
\* [1-9], tried in this order; 0 characters when none matches.
MonthLen(s, p) ==
  IF At(s, p) = "1" /\ At(s, p + 1) \in {"0", "1", "2"} /\ At(s, p + 2) = "-" THEN 2
  ELSE IF At(s, p) = "0" /\ IsDigit(At(s, p + 1)) /\ At(s, p + 1) # "0"
          /\ At(s, p + 2) = "-" THEN 2
  ELSE IF IsDigit(At(s, p)) /\ At(s, p) # "0" /\ At(s, p + 1) = "-" THEN 1
  ELSE 0

\* The part that %d takes at position p: 3[01], [12]\d, 0[1-9], [1-9] or a
\* blank and [1-9], tried in this order.
DayLen(s, p) ==
  IF At(s, p) = "3" /\ At(s, p + 1) \in {"0", "1"} THEN 2
  ELSE IF At(s, p) \in {"1", "2"} /\ IsDigit(At(s, p + 1)) THEN 2
  ELSE IF At(s, p) = "0" /\ IsDigit(At(s, p + 1)) /\ At(s, p + 1) # "0" THEN 2
  ELSE IF IsDigit(At(s, p)) /\ At(s, p) # "0" THEN 1
  ELSE IF At(s, p) = " " /\ IsDigit(At(s, p + 1)) /\ At(s, p + 1) # "0" THEN 2
  ELSE 0

\* The number written by the digits of s from position p to q, blanks skipped.
RECURSIVE Number(_, _, _)
Number(s, p, q) ==
  IF p > q THEN 0
  ELSE IF s[q] = " " THEN Number(s, p, q - 1)
  ELSE 10 * Number(s, p, q - 1) + DigitVal(s[q])

\* datetime.datetime.strptime(date_str, "%Y-%m-%d").date(), any ValueError
\* raised again as ValueError: four digits, "-", the month part, "-", the
\* day part and nothing after it, naming a date that exists.
StrpDate(s) ==
  IF ~(\A p \in 1..4 : IsDigit(At(s, p))) \/ At(s, 5) # "-" THEN ValueError
  ELSE LET ml == MonthLen(s, 6)
           dl == DayLen(s, 7 + ml)
       IN IF ml = 0 \/ dl = 0 THEN ValueError
          ELSE IF 6 + ml + dl # Len(s) THEN ValueError
          ELSE LET year == Number(s, 1, 4)
                   month == Number(s, 6, 5 + ml)
                   day == Number(s, 7 + ml, 6 + ml + dl)
               IN IF DateExists(year, month, day)
                  THEN [kind |-> "date", year |-> year, month |-> month, day |-> day]
                  ELSE ValueError

\* One call validate_date(date_str).
ValidateDate ==
  /\ validated = NoDate
  /\ validated' = StrpDate(date_str)
  /\ UNCHANGED <<estimator, result_csv, exit_status, saving, searching, date_str, automation>>

InitDate ==
  /\ EstimatorIdle
  /\ MainIdle
  /\ SavingIdle
  /\ SearchingIdle
  /\ date_str \in DateStrings
  /\ validated = NoDate
  /\ AutomationIdle

NextDate == ValidateDate

SpecDate == InitDate /\ [][NextDate]_vars

\* ------------------------------------------------------ scraping_auto.py
\* date < date
DateLess(a, b) ==
  \/ a.year < b.year
  \/ a.year = b.year /\ a.month < b.month
  \/ a.year = b.year /\ a.month = b.month /\ a.day < b.day

\* The list of month lengths in add_month, with its leap-year expression.
MonthDays(year) ==
  <<31, IF year % 4 = 0 /\ (year % 100 # 0 \/ year % 400 = 0) THEN 29 ELSE 28,
    31, 30, 31, 30, 31, 31, 30, 31, 30, 31>>

\* add_month keeping the day of d as it is.
AddMonthSameDay(d) ==
  Date(d.year + (d.month \div 12), (d.month % 12) + 1, d.day)

\* add_month(d)
AddMonth(d) ==
  LET year == d.year + (d.month \div 12)
      month == (d.month % 12) + 1
      limit == MonthDays(year)[month]
      day == IF d.day <= limit THEN d.day ELSE limit
  IN Date(year, month, day)

\* The dates add_month is tried on: first and last days of every month of
\* common years, leap years and both kinds of century years.
AddMonthYears == {1900, 2000, 2023, 2024}
AddMonthDates ==
  {d \in [year : AddMonthYears, month : 1..12, day : {1, 28, 29, 30, 31}] :
     DateExists(d.year, d.month, d.day)}

\* One call next_month = add_month(current).
AddMonthCall ==
  /\ next_month = NoDay
  /\ next_month' = AddMonth(current)
  /\ UNCHANGED <<estimator, result_csv, exit_status, saving, searching, validating,
                 browsing, fetching, start, end, current, windows, site, kobe_csv, apc>>

InitAddMonth ==
  /\ EstimatorIdle
  /\ MainIdle
  /\ SavingIdle
  /\ SearchingIdle
  /\ ValidatingIdle
  /\ BrowsingIdle
  /\ FetchingIdle
  /\ start = NoDay
  /\ end = NoDay
  /\ current \in AddMonthDates
  /\ next_month = NoDay
  /\ windows = <<>>
  /\ site = {}
  /\ kobe_csv = NoFile
  /\ apc = "check"

SpecAddMonth == InitAddMonth /\ [][AddMonthCall]_vars

\* The arguments of a run and the dates the site holds bids for; before the
\* run kobe_bids.csv is not there or holds the row of an earlier run.
StartDates == {Date(2023, 12, 31), Date(2024, 1, 15), Date(2024, 1, 31)}
EndDates == {Date(2024, 1, 15), Date(2024, 2, 1), Date(2024, 2, 29), Date(2024, 3, 30)}
SiteDates == {Date(2024, 1, 31), Date(2024, 2, 15), Date(2024, 2, 29)}

\* date.strftime("%Y-%m-%d"), as a sequence of characters.
Padded(n, width) ==
  [p \in 1..width |-> Digits[((n \div (10 ^ (width - p))) % 10) + 1]]
Strftime(d) == Padded(d.year, 4) \o <<"-">> \o Padded(d.month, 2) \o <<"-">> \o Padded(d.day, 2)

\* bid_scraper.main's argument as it parses it.
ParsedArg(str) ==
  CHOOSE day \in {Date(d.year, d.month, d.day) : d \in {StrpDate(str)}} : TRUE

\* What fetch_kobe_bids_selenium returns when nothing fails: one row for each
\* bid the site holds that was opened from start to end, both included, in
\* date order.
RECURSIVE SortedDates(_)
SortedDates(ds) ==
  IF ds = {} THEN <<>>
  ELSE LET first == CHOOSE d \in ds : \A o \in ds : ~DateLess(o, d)
       IN <<first>> \o SortedDates(ds \ {first})
SiteRows(from, to) ==
  SortedDates({d \in site : ~DateLess(d, from) /\ ~DateLess(to, d)})

\* append_to_csv(rows, path), called when rows is not empty: the header is
\* written when the file was not there, then one line for each row.
AppendToCsv(file, rows) ==
  IF rows = <<>> THEN file
  ELSE [exists |-> TRUE,
        headers |-> IF file.exists THEN file.headers ELSE 1,
        rows |-> file.rows \o rows]

\* The window's end left at add_month(current), also past end.
NextMonthUnclamped(cur) == AddMonth(cur)

\* next_month = add_month(current); if next_month > end: next_month = end
NextMonth(cur) == IF DateLess(end, AddMonth(cur)) THEN end ELSE AddMonth(cur)

\* The loop leaving at the first window whose scraper failed.
AfterWindowStopping(returncode, next) ==
  IF returncode # 0 THEN end ELSE next

\* current = next_month, whatever result.returncode is.
AfterWindow(returncode, next) == next

\* main up to the loop: start >= end prints the message and sys.exit(1).
AutoCheck ==
  /\ apc = "check"
  /\ IF DateLess(start, end)
     THEN /\ apc' = "loop"
          /\ current' = start
          /\ UNCHANGED exit_status
     ELSE /\ apc' = "exited"
          /\ exit_status' = 1
          /\ UNCHANGED current
  /\ UNCHANGED <<estimator, result_csv, saving, searching, validating, browsing, fetching,
                 start, end, next_month, windows, site, kobe_csv>>

\* One round of the loop: the window is computed, bid_scraper.py is run on
\* the two formatted dates and waited for.  The scraper parses its arguments,
\* fetches and appends the rows it got, or ends with a non-zero status
\* because the fetch raised.
RunWindow ==
  /\ apc = "loop"
  /\ DateLess(current, end)
  /\ \E nm \in {NextMonth(current)} :
     \E start_str \in {Strftime(current)}, end_str \in {Strftime(nm)} :
     \E from \in {ParsedArg(start_str)}, to \in {ParsedArg(end_str)} :
     \E returncode \in {0, 1} :
       /\ next_month' = nm
       /\ windows' = Append(windows, [from |-> from, to |-> to,
                                      returncode |-> returncode])
       /\ kobe_csv' = IF returncode = 0
                      THEN AppendToCsv(kobe_csv, SiteRows(from, to))
                      ELSE kobe_csv
       /\ current' = AfterWindow(returncode, nm)
  /\ UNCHANGED <<estimator, result_csv, exit_status, saving, searching, validating,
                 browsing, fetching, start, end, site, apc>>

\* The loop condition fails: main returns and the process ends with status 0.
AutoEnd ==
  /\ apc = "loop"
  /\ ~DateLess(current, end)
  /\ apc' = "exited"
  /\ exit_status' = 0
  /\ UNCHANGED <<estimator, result_csv, saving, searching, validating, browsing, fetching,
                 start, end, current, next_month, windows, site, kobe_csv>>

InitAuto ==
  /\ EstimatorIdle
  /\ MainIdle
  /\ SavingIdle
  /\ SearchingIdle
  /\ ValidatingIdle
  /\ BrowsingIdle
  /\ FetchingIdle
  /\ start \in StartDates
  /\ end \in EndDates
  /\ current = NoDay
  /\ next_month = NoDay
  /\ windows = <<>>
  /\ site \in SUBSET SiteDates
  /\ kobe_csv \in {NoFile, AppendToCsv(NoFile, <<Date(2023, 11, 30)>>)}
  /\ apc = "check"

NextAuto == AutoCheck \/ RunWindow \/ AutoEnd

\* The interpreter runs main's statements one after the other, and every
\* scraper process that was launched ends.
SpecAuto == InitAuto /\ [][NextAuto]_vars /\ WF_vars(NextAuto)

\* ------------------------- bid_scraper.py: fetch_kobe_bids_selenium
\* A price field of a detail page after the non-digits were removed: no such
\* element, a text without digits, or digits.
PriceTexts == {"", "-", "0", "90", "100"}

\* int(text); -1 stands for its ValueError.
IntOf(text) ==
  CASE text = "0" -> 0 [] text = "90" -> 90 [] text = "100" -> 100 [] OTHER -> -1

\* The block that sets 制限率: round(min_limit / planned, 3), in thousandths,
\* when both fields are filled, are numbers and planned is not 0; "" else.
LimitRate(min_limit, planned) ==
  IF min_limit # "" /\ planned # "" /\ IntOf(min_limit) # -1 /\ IntOf(planned) > 0
  THEN [filled |-> TRUE, milli |-> (1000 * IntOf(min_limit)) \div IntOf(planned)]
  ELSE [filled |-> FALSE, milli |-> 0]

\* driver = webdriver.Chrome(...): the driver is started, or the call raises.
FetchStart ==
  /\ fpc = "start"
  /\ \/ /\ driver' = [started |-> TRUE, quits |-> 0]
        /\ fpc' = "form"
        /\ UNCHANGED fetched
     \/ /\ fpc' = "raised"
        /\ fetched' = [kind |-> "raised", list |-> <<>>, exc |-> "Exception"]
        /\ UNCHANGED driver
  /\ UNCHANGED <<estimator, outside_fetching, url_list, fetch_bids>>

\* The form page is opened and waited for, the six dates are selected and
\* the search button is clicked; an exception of any of these statements
\* leaves the function.
FetchForm ==
  /\ fpc = "form"
  /\ \/ /\ fpc' = "check"
        /\ UNCHANGED fetched
     \/ /\ fpc' = "raised"
        /\ fetched' = [kind |-> "raised", list |-> <<>>, exc |-> "Exception"]
  /\ UNCHANGED <<estimator, outside_fetching, driver, url_list, fetch_bids>>

\* The two zero-result checks: the count text holds "0 件", or the table
\* header does not come: the driver is quit and [] returned.  Otherwise the
\* function goes on; an exception other than TimeoutException leaves it.
FetchResultCheck ==
  /\ fpc = "check"
  /\ \/ /\ driver' = [driver EXCEPT !.quits = @ + 1]
        /\ fpc' = "returned"
        /\ fetched' = [kind |-> "list", list |-> <<>>, exc |-> "none"]
     \/ /\ fpc' = "table"
        /\ UNCHANGED <<driver, fetched>>
     \/ /\ fpc' = "raised"
        /\ fetched' = [kind |-> "raised", list |-> <<>>, exc |-> "Exception"]
        /\ UNCHANGED driver
  /\ UNCHANGED <<estimator, outside_fetching, url_list, fetch_bids>>

\* The table is located and phase 1 collects the rows that have both URLs;
\* when neither header cell can be found the second wait raises.
FetchTable ==
  /\ fpc = "table"
  /\ \/ /\ \E n \in 0..2 : url_list' \in [1..n -> [planned : PriceTexts, min_limit : PriceTexts]]
        /\ fpc' = "details"
        /\ UNCHANGED fetched
     \/ /\ fpc' = "raised"
        /\ fetched' = [kind |-> "raised", list |-> <<>>, exc |-> "Exception"]
        /\ UNCHANGED url_list
  /\ UNCHANGED <<estimator, outside_fetching, driver, fetch_bids>>

\* One round of phase 2: the two pages of a bid are loaded and read, the
\* rate is computed and the bid appended; driver.get may raise.
FetchDetail ==
  /\ fpc = "details"
  /\ Len(fetch_bids) < Len(url_list)
  /\ \/ /\ LET pg == url_list[Len(fetch_bids) + 1]
           IN fetch_bids' = Append(fetch_bids,
                               [planned |-> pg.planned, min_limit |-> pg.min_limit,
                                rate |-> LimitRate(pg.min_limit, pg.planned)])
        /\ UNCHANGED <<fpc, fetched>>
     \/ /\ fpc' = "raised"
        /\ fetched' = [kind |-> "raised", list |-> <<>>, exc |-> "Exception"]
        /\ UNCHANGED fetch_bids
  /\ UNCHANGED <<estimator, outside_fetching, driver, url_list>>

\* After phase 2: driver.quit() and return bids.
FetchReturn ==
  /\ fpc = "details"
  /\ Len(fetch_bids) = Len(url_list)
  /\ driver' = [driver EXCEPT !.quits = @ + 1]
  /\ fpc' = "returned"
  /\ fetched' = [kind |-> "list", list |-> fetch_bids, exc |-> "none"]
  /\ UNCHANGED <<estimator, outside_fetching, url_list, fetch_bids>>

InitFetch ==
  /\ EstimatorIdle
  /\ MainIdle
  /\ SavingIdle
  /\ SearchingIdle
  /\ ValidatingIdle
  /\ BrowsingIdle
  /\ MonthlyIdle
  /\ FetchingIdle

NextFetch ==
  FetchStart \/ FetchForm \/ FetchResultCheck \/ FetchTable \/ FetchDetail \/ FetchReturn

SpecFetch == InitFetch /\ [][NextFetch]_vars

\* ------------------------------------------------------------- properties
Max(a, b) == IF a >= b THEN a ELSE b
NRows == Len(X_train.rows)
MRows == Len(X_test.rows)
RoundFailed == exc.origin \in {"fit", "predict"}
CallEnded == pc \in {"returned", "raised"}

\* The preconditions of the estimate contract, read on the arguments:
\* rounds >= 1, N >= 1, 0 < confidence level < 1 (alpha = 1 - level), equal K.
ValidConfidence == 0 < alphaNum /\ alphaNum < AlphaDen
Violations ==
  {v \in {"rounds", "empty", "confidence", "width"} :
     \/ v = "rounds" /\ n_boot <= 0
     \/ v = "empty" /\ NRows = 0
     \/ v = "confidence" /\ ~ValidConfidence
     \/ v = "width" /\ X_train.cols # X_test.cols}
PreconditionsHold == Violations = {}

C2_InvalidInputRaisesBeforeRounds ==
  (Cardinality(Violations) = 1 /\ pc # "idle") =>
     /\ nModels = 0
     /\ nFits = 0
     /\ pc # "returned"

\* State part of C3: one row of length M per completed round; the summary is
\* computed at most once, only when the loop is over and from all its rows,
\* and what is returned is the summary of those rows.
C3_Inv ==
  /\ pc # "idle" => Len(preds_all) = i
  /\ \A b \in 1..Len(preds_all) : Len(preds_all[b]) = MRows
  /\ nSummary <= 1
  /\ nSummary = 1 <=> (pc \in {"returned", "raised"} /\ ~RoundFailed)
  /\ nSummary = 1 => Len(preds_all) = Max(n_boot, 0)
  /\ ret.kind = "seq" => ret = Summary(preds_all, MRows, alphaNum)

\* Step part of C3: within a call a step leaves the rows as they are or
\* appends one row after them, and a returned summary is not changed.
C3_Step ==
  calls' = calls =>
    /\ \/ preds_all' = preds_all
       \/ /\ Len(preds_all') = Len(preds_all) + 1
          /\ SubSeq(preds_all', 1, Len(preds_all)) = preds_all
    /\ (ret # NoRet => ret' = ret)

\* C3: the prediction matrix has exactly one row of length M per completed
\* round, a row once appended is never changed or removed, and the summary is
\* computed once, only when the matrix holds all the rounds' rows.
C3_MatrixGrowsByRows == []C3_Inv /\ [][C3_Step]_vars

\* C3 witness: a call returned the summary of two rows.
C3_Witness == pc = "returned" /\ Len(preds_all) = 2 /\ ret.kind = "seq" /\ MRows = 2

\* C4: for more than one round and a confidence level in (0, 1), every
\* returned lower bound is at most the upper bound of the same row.
C4_LowerAtMostUpper ==
  (pc = "returned" /\ ret.kind = "seq" /\ n_boot > 1 /\ ValidConfidence) =>
     \A m \in 1..MRows : ret.lower[m] <= ret.upper[m]

\* C4 witness: a returned interval of two rounds that is not a single point.
C4_Witness ==
  /\ pc = "returned" /\ ret.kind = "seq" /\ n_boot > 1 /\ ValidConfidence
  /\ \E m \in 1..MRows : ret.lower[m] < ret.upper[m]

\* C5: with one round and a confidence level in (0, 1) the summary step does
\* not raise, and mean, lower and upper all equal the single model's
\* prediction, row by row.
C5_SingleRoundCollapses ==
  (n_boot = 1 /\ nSummary = 1 /\ ValidConfidence) =>
     /\ pc = "returned"
     /\ ret.kind = "seq"
     /\ Len(preds_all) = 1
     /\ \A m \in 1..MRows :
          /\ ret.mean[m] = PScale(1) * preds_all[1][m]
          /\ ret.lower[m] = ret.mean[m]
          /\ ret.upper[m] = ret.mean[m]
     /\ Len(ret.mean) = MRows /\ Len(ret.lower) = MRows /\ Len(ret.upper) = MRows

\* C5 witness: a one-round call returned for two rows with unlike predictions.
C5_Witness ==
  /\ n_boot = 1 /\ pc = "returned" /\ ValidConfidence /\ MRows = 2
  /\ ret.mean[1] # ret.mean[2]

\* C6: for the matrix a call summarised at a confidence level in (0, 1), every
\* higher level in (0, 1) (a smaller alpha) gives on that matrix a lower bound
\* that is no higher and an upper bound that is no lower than the returned
\* ones, for every row.
ValidAlphaNums == 1..(AlphaDen - 1)
C6_ConfidenceWidens ==
  (pc = "returned" /\ ret.kind = "seq" /\ ValidConfidence) =>
     \A a2 \in ValidAlphaNums :
        a2 <= alphaNum =>
          LET s2 == Summary(preds_all, MRows, a2)
          IN \A m \in 1..MRows :
               s2.lower[m] <= ret.lower[m] /\ ret.upper[m] <= s2.upper[m]

\* C6 witness: a returned interval that a higher level makes strictly wider
\* at both ends for some row.
C6_Witness ==
  /\ pc = "returned" /\ ret.kind = "seq" /\ ValidConfidence
  /\ \E a2 \in ValidAlphaNums : \E m \in 1..MRows :
       /\ a2 < alphaNum
       /\ Summary(preds_all, MRows, a2).lower[m] < ret.lower[m]
       /\ ret.upper[m] < Summary(preds_all, MRows, a2).upper[m]

\* C7 as stated: when two calls with the same arguments both return, the
\* second returns the mean, lower and upper of the first, whatever was drawn
\* from the shared generator in between.
C7_SecondCallSameResult ==
  (PreconditionsHold /\ calls = 2 /\ pc = "returned"
     /\ firstRet # <<>> /\ firstRet[1].ret.kind = "seq") =>
       firstRet[1].ret = ret

\* C8 as stated: a round leaves every state that other rounds read as it
\* found it; in particular the generator the resamples are drawn from.
C8_RoundsShareNoState ==
  [][(pc = "loop" /\ nFits' = nFits + 1) => rng' = rng]_vars

\* C9: in analist5 every target in every sample handed to a fit is at least
\* the floor, and the targets the loop samples from are clipped before the
\* first round.
C9_FitTargetsAtLeastFloor ==
  family = "xgb" =>
     /\ \A key \in DOMAIN fitted :
          \A p \in 1..Len(key[2]) : key[2][p] >= ClipFloor
     /\ pc = "loop" =>
          /\ Len(y) = NRows
          /\ \A p \in 1..Len(y) : y[p] >= ClipFloor /\ y[p] >= y_train[p]

\* C9 witness: a fit was made in analist5 on a training set holding a target
\* below the floor.
C9_Witness ==
  /\ family = "xgb" /\ nFits >= 1
  /\ \E p \in 1..NRows : y_train[p] < ClipFloor
  /\ \E key \in DOMAIN fitted : Len(key[2]) >= 1

\* C10: no step of a call, ending well or not, changes the caller's training
\* features, training targets or evaluation features.
C10_InputsUnchanged ==
  [][X_train' = X_train /\ y_train' = y_train /\ X_test' = X_test]_vars

\* C10 witness: a call of analist5 ended after clipping targets that lay
\* below the floor.
C10_Witness == family = "xgb" /\ CallEnded /\ y # y_train /\ NRows >= 1

\* C11: the index sequence of a round has exactly N entries, each in 0..N-1;
\* every sample handed to a fit has N feature rows and N targets, and each of
\* its (feature row, target) pairs is a pair of the training set (the target
\* being the one the loop samples from, clipped in analist5); every answer of
\* predict has one prediction per evaluation row, M in all.
C11_ResampleIsPairedDraw ==
  /\ pc = "loop" =>
       LET idx == Resample(rng, NRows, X_train, y).idx
       IN /\ Len(idx) = NRows
          /\ \A p \in 1..Len(idx) : idx[p] \in 0..(NRows - 1)
  /\ \A key \in DOMAIN fitted :
       /\ Len(key[1]) = NRows
       /\ Len(key[2]) = NRows
       /\ \A p \in 1..NRows :
            \E q \in 1..NRows : key[1][p] = X_train.rows[q] /\ key[2][p] = y[q]
       /\ fitted[key].kind = "ok" => Len(fitted[key].preds) = MRows
  /\ \A b \in 1..Len(preds_all) : Len(preds_all[b]) = MRows

\* C11 witness: a fit on a sample that repeats one training row, of a
\* training set with two unlike targets, predicted for two evaluation rows.
C11_Witness ==
  /\ NRows = 2 /\ MRows = 2 /\ Len(y) = 2 /\ y[1] # y[2]
  /\ \E key \in DOMAIN fitted :
       key[1][1] = key[1][2] /\ fitted[key].kind = "ok"

\* The ranks of the nearest-rank percentile for B rounds:
\* ceil(B * alpha / 2) and floor(B * (1 - alpha / 2)).
LowerRank(B, aNum) == (B * aNum + QScale - 1) \div QScale
UpperRank(B, aNum) == (B * (QScale - aNum)) \div QScale
SortedColumn(m) == Sort(Column(preds_all, m))
Predicted(v, m) == \E b \in 1..Len(preds_all) : v = PScale(Len(preds_all)) * preds_all[b][m]

\* C12 as stated, for B > 1 rounds: every returned lower bound is the element
\* at rank ceil(B*alpha/2) and every upper bound the element at rank
\* floor(B*(1-alpha/2)) of the sorted column, hence a value some round
\* predicted for that row.
C12_BoundsAreNearestRank ==
  (pc = "returned" /\ ret.kind = "seq" /\ PreconditionsHold /\ n_boot > 1) =>
     LET B == Len(preds_all)
     IN \A m \in 1..MRows :
          /\ LowerRank(B, alphaNum) \in 1..B
          /\ UpperRank(B, alphaNum) \in 1..B
          /\ ret.lower[m] = PScale(B) * SortedColumn(m)[LowerRank(B, alphaNum)]
          /\ ret.upper[m] = PScale(B) * SortedColumn(m)[UpperRank(B, alphaNum)]
          /\ Predicted(ret.lower[m], m)
          /\ Predicted(ret.upper[m], m)

\* A returned bound v is the linear interpolation at the virtual index
\* t / QScale (0-based) of the sorted column m: it lies between the two
\* neighbouring elements in the proportion of the fractional part.
Interpolates(v, m, t) ==
  LET B == Len(preds_all)
      s == SortedColumn(m)
      j == t \div QScale + 1
      jn == IF j < B THEN j + 1 ELSE B
  IN /\ PScale(B) * s[j] <= v
     /\ v <= PScale(B) * s[jn]
     /\ (v - PScale(B) * s[j]) * QScale = (t % QScale) * PScale(B) * (s[jn] - s[j])
     /\ (t % QScale = 0 => Predicted(v, m))

\* C12 amended: for a confidence level in (0, 1), lower[m] and upper[m] are
\* the linearly interpolated percentiles of column m at the virtual indices
\* (B-1)*alpha/2 and (B-1)*(1-alpha/2) of the sorted column; each lies
\* between two neighbouring predicted values, hence between the smallest and
\* the largest prediction of the row, and is itself a predicted value when
\* its virtual index is whole.
C12_BoundsAreInterpolated ==
  (pc = "returned" /\ ret.kind = "seq" /\ ValidConfidence) =>
     LET B == Len(preds_all)
     IN \A m \in 1..MRows :
          /\ Interpolates(ret.lower[m], m, alphaNum * (B - 1))
          /\ Interpolates(ret.upper[m], m, (QScale - alphaNum) * (B - 1))
          /\ PScale(B) * SortedColumn(m)[1] <= ret.lower[m]
          /\ ret.upper[m] <= PScale(B) * SortedColumn(m)[B]

\* C12 witness: a returned interval of two rounds whose bounds for some row
\* are values that no round predicted.
C12_Witness ==
  /\ pc = "returned" /\ ret.kind = "seq" /\ ValidConfidence /\ n_boot = 2
  /\ \E m \in 1..MRows :
       ~Predicted(ret.lower[m], m) /\ ~Predicted(ret.upper[m], m)

\* C13 as stated: with valid arguments and an evaluation set of no rows every
\* round can complete, so the call can succeed, and a call that returns
\* gives three empty sequences; in general each returned sequence has
\* exactly M entries.
C13_EmptyEvaluationSucceeds ==
  /\ (PreconditionsHold /\ MRows = 0) =>
       /\ (pc = "loop" /\ i < n_boot) => ENABLED (Round /\ i' = i + 1)
       /\ pc = "returned" =>
            ret = [kind |-> "seq", mean |-> <<>>, lower |-> <<>>, upper |-> <<>>]
  /\ ret.kind = "seq" =>
       Len(ret.mean) = MRows /\ Len(ret.lower) = MRows /\ Len(ret.upper) = MRows

\* C14: in each training script the result file is written only after every
\* bootstrap round has completed and the summary was computed; when a round
\* raises, no result file, full or partial, is written or can still be
\* written, and the only step left to the process is to end with exit
\* status 1, so it never ends with status 0.
C14_WriteOnlyAfterAllRounds ==
  /\ result_csv # "absent" =>
       /\ ~RoundFailed
       /\ nFits = n_boot
       /\ Len(preds_all) = n_boot
       /\ nSummary = 1
       /\ ret.kind = "seq"
  /\ RoundFailed =>
       /\ result_csv = "absent"
       /\ exit_status \in {-1, 1}
       /\ ~ENABLED SaveResult
       /\ exit_status = -1 =>
            /\ ENABLED Exit
            /\ ~ENABLED (NextMain /\ exit_status' # 1)
  /\ exit_status = 0 => result_csv = "full"

\* C14 witness: the process ended with status 1 after its second round
\* raised, the first one completed.
C14_Witness == RoundFailed /\ exit_status = 1 /\ i = 1 /\ result_csv = "absent"

\* ------------------------------------------- properties of save_to_csv
\* The keys of the rows stored in a file: every line but the header line.
StoredKeys(lines) ==
  {<<lines[p][1], lines[p][2]>> : p \in {q \in 1..Len(lines) : lines[q] # columns}}
AppendStep == nSaves' = nSaves + 1 /\ append' /\ csv_file.exists
AddedLines == SubSeq(csv_file'.lines, Len(csv_file.lines) + 1, Len(csv_file'.lines))

\* C15 as stated, for calls that could read the file: a call with
\* append=True writes no row whose key is already in the file, and saving
\* again the batch that the call before it saved leaves the number of lines
\* of the file as it was.
C15_AppendAddsNoDuplicate ==
  [][(AppendStep /\ ~read_failed') =>
       /\ \A p \in 1..Len(AddedLines) :
            <<AddedLines[p][1], AddedLines[p][2]>> \notin StoredKeys(csv_file.lines)
       /\ (nSaves >= 1 /\ data' = data) =>
            Len(csv_file'.lines) = Len(csv_file.lines)]_vars

\* C28 as stated: after any sequence of calls on a path that was absent or
\* an empty file at first, the file begins with the header line, and every
\* later line is a data row of the fixed columns, no second header.
C28_FileIsHeaderThenRows ==
  nSaves >= 1 =>
    /\ csv_file.exists
    /\ csv_file.lines # <<>>
    /\ csv_file.lines[1] = columns
    /\ \A p \in 2..Len(csv_file.lines) :
         /\ csv_file.lines[p] # columns
         /\ Len(csv_file.lines[p]) = Len(columns)

\* C16: a call with append=True on an existing file leaves every line of the
\* file unchanged and in place and adds after them the rows the call found
\* new, as filtered rows in batch order and without a second header; read
\* from a file that begins with the header line, the new rows are exactly the
\* rows of the batch whose key is not the key of a stored row.
C16_AppendKeepsExistingRows ==
  [][AppendStep =>
       /\ csv_file'.exists
       /\ Len(csv_file'.lines) = Len(csv_file.lines) + Len(new_data')
       /\ SubSeq(csv_file'.lines, 1, Len(csv_file.lines)) = csv_file.lines
       /\ AddedLines = [p \in 1..Len(new_data') |-> FilteredRow(new_data'[p])]
       /\ new_data' = SelectSeq(data', LAMBDA row :
                          \E p \in 1..Len(new_data') : new_data'[p] = row)
       /\ (csv_file.lines # <<>> /\ csv_file.lines[1] = columns /\ ~read_failed') =>
            new_data' = SelectSeq(data', LAMBDA row :
                           RowKey(row) \notin StoredKeys(csv_file.lines))]_vars

\* C16 witness: an append to a file with header and stored rows that wrote
\* one row of a batch of two and left the other out as a duplicate.
C16_Witness ==
  /\ nSaves = 2 /\ append /\ ~read_failed
  /\ Len(data) = 2 /\ Len(new_data) = 1 /\ new_data[1] = data[2]
  /\ csv_file.lines[1] = columns
  /\ Len(csv_file.lines) = 3

\* ----------------------------------------- properties of save_to_excel
Count(seq, v) == Cardinality({p \in 1..Len(seq) : seq[p] = v})
Range(seq) == {seq[p] : p \in 1..Len(seq)}
UnstoredRows(batch, rows) ==
  LET fresh == SelectSeq(batch, LAMBDA row : RowKey(row) \notin FrameKeys(rows))
  IN [p \in 1..Len(fresh) |-> FilteredRow(fresh[p])]

\* C17 as stated, for calls that could read the workbook: after a call with
\* append=True on an existing workbook, the workbook holds every row it held
\* before plus exactly the rows of the batch whose key was not stored, each
\* as often as that.
C17_WorkbookGainsUnstoredRows ==
  [][(nSaves' = nSaves + 1 /\ append' /\ xlsx_file.exists /\ ~read_failed') =>
       LET expected == UnstoredRows(data', xlsx_file.rows)
       IN \A v \in Range(xlsx_file'.rows) \cup Range(xlsx_file.rows) \cup Range(expected) :
            Count(xlsx_file'.rows, v) = Count(xlsx_file.rows, v) + Count(expected, v)]_vars

\* C27 as stated: a call with append=True on an existing workbook loses no
\* stored row: every row the workbook held before the call it holds after
\* the call, at least as often, also when reading or merging the workbook
\* failed.
C27_AppendLosesNoStoredRow ==
  [][(nSaves' = nSaves + 1 /\ append' /\ xlsx_file.exists) =>
       \A v \in Range(xlsx_file.rows) :
         Count(xlsx_file'.rows, v) >= Count(xlsx_file.rows, v)]_vars

\* ------------------------------ properties of search_bids_with_requests
\* C18: whenever the received page has a next-page link, the function gives
\* None, also when rows of that page were parsed; a list is given only for
\* a page without such a link and is then the whole parse of the page; and
\* in main the browser-driven search runs exactly when None was given.
C18_NextPageGivesNone ==
  /\ (spc \in {"searched", "selenium"} /\ page.table /\ page.next = "href") =>
       bids.kind = "none"
  /\ bids.kind = "list" =>
       /\ page.table
       /\ page.next # "href"
       /\ bids.list = ParseFrom(page.rows, 1)
  /\ (caller = "main" /\ spc = "searched") =>
       (ENABLED MainFallback <=> bids.kind = "none")
  /\ selenium_runs >= 1 => (bids.kind = "none" /\ spc = "selenium")

\* C18 witness: main switched to the browser-driven search for a page with a
\* next-page link of which two rows could be parsed.
C18_Witness ==
  /\ spc = "selenium" /\ selenium_runs = 1
  /\ page.table /\ page.next = "href"
  /\ Len(ParseFrom(page.rows, 1)) = 2

\* C19 as stated: a call with an end date earlier than the start date, when
\* no request of it fails, ends by raising ValueError.
C19_EndBeforeStartRaisesValueError ==
  (end_date < start_date /\ spc \in {"searched", "raised"}
     /\ bids.exc # "RequestException") =>
       (bids.kind = "raised" /\ bids.exc = "ValueError")

\* ----------------------------------------- properties of validate_date
\* The string has the form YYYY-MM-DD: ten characters, digits but for the
\* two hyphens.
InForm(s) ==
  /\ Len(s) = 10
  /\ s[5] = "-" /\ s[8] = "-"
  /\ \A p \in {1, 2, 3, 4, 6, 7, 9, 10} : IsDigit(s[p])

\* C20 as stated: validate_date gives the date named by a string of the form
\* YYYY-MM-DD that names an existing date, and raises ValueError for every
\* other string.
C20_OnlyWellFormedDatesAccepted ==
  validated # NoDate =>
    IF InForm(date_str)
         /\ DateExists(Number(date_str, 1, 4), Number(date_str, 6, 7),
                         Number(date_str, 9, 10))
    THEN validated = [kind |-> "date", year |-> Number(date_str, 1, 4),
                      month |-> Number(date_str, 6, 7), day |-> Number(date_str, 9, 10)]
    ELSE validated = ValueError

\* --------------------------------- properties of kobe_bid_scraper.main
SearchDrivers == {d \in 1..Len(drivers) : drivers[d].owner = "search"}
SeleniumSearchFailed == sel.kind = "raised"
C21_Inv ==
  /\ selenium_runs <= 1
  /\ Cardinality(SearchDrivers) <= selenium_runs
  /\ selenium_runs = 1 => bids.kind = "none"
  /\ spc \in {"selenium", "selenium_try", "selenium_returned"} => selenium_runs = 1
  /\ sel.kind # "pending" => selenium_runs = 1
  /\ bids.kind \in {"list", "raised"} =>
       /\ selenium_runs = 0
       /\ ~ENABLED MainFallback
  /\ SeleniumSearchFailed =>
       /\ exit_status \in {-1, 1}
       /\ ~ENABLED MainFallback
       /\ ~ENABLED SetupSearchDriver
       /\ exit_status = -1 => ~ENABLED (NextKobe /\ exit_status' # 1)

\* C21: in kobe_bid_scraper.main the browser-driven search runs at most once
\* and only after the requests search returned None; when the requests
\* search returned a list, empty or not, it never runs; when it fails it is
\* not run again and the process ends with exit status 1.
C21_FallbackRunsOnceAfterNone ==
  []C21_Inv /\ (SeleniumSearchFailed ~> exit_status = 1)

\* C21 witness: the process ended with status 1 after the one run of the
\* browser-driven search, made after a page with a next-page link, failed
\* with its driver started.
C21_Witness ==
  /\ SeleniumSearchFailed
  /\ exit_status = 1
  /\ selenium_runs = 1
  /\ page.next = "href"
  /\ Cardinality(SearchDrivers) = 1

\* The detail phase of main is over: the loop was entered and left, by its
\* end or by an exception.
DetailPhaseBegun == bid_index >= 1
DetailPhaseOver == DetailPhaseBegun /\ spc \in {"save", "exited"}

\* C26 as stated: detailed_bids follows the search results entry by entry
\* and, once the detail phase is over, has their length, also when both
\* detail fetches failed; the browser-driven detail fetch is called for a bid
\* exactly when the requests result misses a required field or has it
\* empty; a pause follows every bid but the last.
C26_OneDetailPerBidInOrder ==
  DetailPhaseBegun =>
    /\ Len(detailed_bids) <= Len(FoundBids)
    /\ \A j \in 1..Len(detailed_bids) : detailed_bids[j].row = FoundBids[j].row
    /\ DetailPhaseOver => Len(detailed_bids) = Len(FoundBids)
    /\ selenium_details \subseteq 1..bid_index
    /\ spc = "detail_selenium" =>
         (MissingFields(detailed_bid) # {} /\ bid_index \in selenium_details)
    /\ (spc = "detail_append" /\ bid_index \notin selenium_details) =>
         MissingFields(detailed_bid) = {}
    /\ sleeps = [p \in 1..Len(sleeps) |-> p]
    /\ Len(sleeps) = (IF Len(detailed_bids) < Len(FoundBids) THEN Len(detailed_bids)
                      ELSE Len(FoundBids) - 1)

\* A browser-driven function holds a driver and has not left yet.
InSeleniumFunction == spc \in {"selenium_try", "detail_try"}

\* C29 as stated: every driver that was started has been quit exactly once
\* when the function that asked for it has returned or raised, also when
\* setup_selenium failed after it started the driver; the driver of a
\* function that is still running has not been quit yet.
C29_EveryDriverQuitOnce ==
  \A d \in 1..Len(drivers) :
    IF d = Len(drivers) /\ InSeleniumFunction
    THEN drivers[d].quits = 0
    ELSE drivers[d].quits = 1

\* ------------------------------------------ properties of scraping_auto
\* C22: add_month(d) is the date in the calendar month that follows d's,
\* December being followed by January of the next year, whose day is the
\* smaller of d's day and the number of days of that month, February having
\* 29 days exactly in Gregorian leap years; 2024-01-31 gives 2024-02-29.
C22_AddMonthClampsToNextMonth ==
  next_month # NoDay =>
    LET year == IF current.month = 12 THEN current.year + 1 ELSE current.year
        month == IF current.month = 12 THEN 1 ELSE current.month + 1
        days == DaysIn(year, month)
    IN /\ next_month.year = year
       /\ next_month.month = month
       /\ next_month.day = (IF current.day < days THEN current.day ELSE days)
       /\ DateExists(next_month.year, next_month.month, next_month.day)
       /\ current = Date(2024, 1, 31) => next_month = Date(2024, 2, 29)

\* C22 witness: add_month was called on the last day of January of a century
\* year that is no leap year.
C22_Witness == current = Date(1900, 1, 31) /\ next_month = Date(1900, 2, 28)

\* The window the chain of the claim has at place j: from the end of the
\* window before it, or from start, to a month later or to end.
ChainFrom(j) == IF j = 1 THEN start ELSE windows[j - 1].to
ChainTo(j) ==
  IF DateLess(end, AddMonth(ChainFrom(j))) THEN end ELSE AddMonth(ChainFrom(j))
C23_Inv ==
  DateLess(start, end) =>
    /\ \A j \in 1..Len(windows) :
         /\ windows[j].from = ChainFrom(j)
         /\ windows[j].to = ChainTo(j)
         /\ DateLess(windows[j].from, windows[j].to)
    /\ apc = "exited" =>
         /\ exit_status = 0
         /\ Len(windows) >= 1
         /\ windows[Len(windows)].to = end

\* C23: for start < end, scraping_auto.main terminates, and the windows it
\* launches the scraper on form a chain: the first begins on start, each
\* ends a month after it began or on end if that comes first, each ends
\* strictly later than it began, each begins on the date the one before it
\* ended, and the last ends exactly on end.
C23_WindowsChainToEnd ==
  []C23_Inv /\ ((apc = "check" /\ DateLess(start, end)) ~> apc = "exited")

\* C23 witness: a run over three months ended after four windows, the
\* second ending on the last day of February and the last one on end.
C23_Witness ==
  /\ apc = "exited"
  /\ start = Date(2023, 12, 31)
  /\ Len(windows) = 4
  /\ windows[2].to = Date(2024, 2, 29)
  /\ windows[4].to = end

\* C24: a window whose scraper exits non-zero does not stop the run: the
\* window after it begins where it ended, no window is launched twice, the
\* loop goes on while the failed window ended before end, and the run ends
\* only after a window that ends on end.
C24_FailedWindowDoesNotStopRun ==
  /\ \A j \in 1..Len(windows) :
       windows[j].returncode # 0 =>
         /\ j < Len(windows) => windows[j + 1].from = windows[j].to
         /\ (j = Len(windows) /\ DateLess(windows[j].to, end)) =>
              (apc = "loop" /\ ENABLED RunWindow)
  /\ \A j, l \in 1..Len(windows) : j # l => windows[j].from # windows[l].from
  /\ (apc = "exited" /\ windows # <<>>) => windows[Len(windows)].to = end

\* C24 witness: the run ended after a first window that failed and two
\* later windows, the last of which succeeded.
C24_Witness ==
  /\ apc = "exited"
  /\ Len(windows) = 3
  /\ windows[1].returncode = 1
  /\ windows[3].returncode = 0

\* C25 as stated: a bid opened on a date where one window ends and the next
\* begins is in kobe_bids.csv at most once.
C25_BoundaryBidAppendedOnce ==
  \A j \in 1..Len(windows) :
    (j < Len(windows) /\ windows[j].to \in site) =>
      Count(kobe_csv.rows, windows[j].to) <= 1

\* ----------------------------- properties of fetch_kobe_bids_selenium
\* C30 as stated: whenever the function has been left, by a zero-result
\* return, by the normal return or by an exception, the driver it started
\* has been quit.
C30_DriverQuitOnEveryWayOut ==
  (fpc \in {"returned", "raised"} /\ driver.started) => driver.quits >= 1

====
